---- MODULE Spec2Model ----
(***************************************************************************)
(* MemQueue (src/memqueue/__init__.py): a message queue kept in memcache.  *)
(*                                                                         *)
(* The cache is modelled by typed maps, one per family of keys the class   *)
(* writes for one queue:                                                   *)
(*   data      message key              -> payload                         *)
(*   bucket    <queue>_LIST_<stamp>     -> comma terminated list of keys   *)
(*   lastmsg   <queue>_LASTMSG          -> message key                     *)
(*   marker    <queue>                  -> time of the last registration   *)
(*   cmsg      <queue>_LASTMSG_<client> -> message key                     *)
(*   ctime     <queue>_LASTTIME_<client>-> time of the last delivery       *)
(* A value that memcache does not hold reads as Python's None.  An         *)
(* optional value is a sequence: None is <<>>, a present value v is <<v>>. *)
(* A Python str is a TLA+ string; a bucket value is the sequence of its    *)
(* pieces (message keys and commas), which split(",") takes apart again.   *)
(* Time is time.time() in whole seconds since 00:00:00 of day 1 of the     *)
(* month; the minute stamp keeps the day, hour and minute digits of        *)
(* strftime("%Y%m%d%H%M") (year and month are constant within the model).  *)
(*                                                                         *)
(* The class takes no lock and every method is a sequence of calls on the  *)
(* cache and readings of the clock.  A step of the model is one such call  *)
(* or reading, made by a thread that is inside a method; the clock may     *)
(* move and other threads may act between any two steps.  A method has     *)
(* returned (or raised) when its thread stands at "done", its locals       *)
(* holding what it read and what it returns.                               *)
(***************************************************************************)
EXTENDS Integers, Sequences, FiniteSets, TLC

\* ------------------------------------------------------------------ bounds
MaxPuts == 3
MaxMinutes == 2
MaxCalls == 3

\* ------------------------------------------------------- program constants
ClientLag == 120
ListFrame == 10
PurgeFrame == 30

DEFAULT_CLIENTID == "UnknownClient"
Clients == {DEFAULT_CLIENTID, "TestClient6"}
\* the client that only asks for its next message, again and again
Poller == "TestClient6"
\* the threads (or processes) that use the queue, and the one that runs
\* alone when the calls are made one after another
Threads == {"t1", "t2"}
MainThread == "t1"
\* when both threads run, each is a client of its own
ClientOf(t) == IF t = MainThread THEN DEFAULT_CLIENTID ELSE "TestClient6"
Comma == ","

\* The clock starts at 23:59:00 of day 1, one minute before the hour and the
\* day change, and moves by just more than a minute (so that two steps are
\* more than the client lag, one step less) or by just more than the client
\* lag.
StartTimes == {23 * 3600 + 59 * 60}
TickSteps == {61, ClientLag + 1}

\* now and autodelete are the clock and the configuration; data .. ctime are
\* the cache; nkeys counts the keys built so far (uuid4 never repeats); puts
\* is the log of the puts that have returned, in the order of their return;
\* polled is the time at which the latest nextmsg call of the polling client
\* that found it caught up returned, None when the client has never been
\* found caught up or has been delivered a message since; ncalls counts the calls started while
\* several threads run; th is, for each thread, its position inside a
\* method and the method's locals.
VARIABLES now, autodelete, data, bucket, lastmsg, marker, cmsg, ctime,
          nkeys, puts, polled, ncalls, th

vars == <<now, autodelete, data, bucket, lastmsg, marker, cmsg, ctime,
          nkeys, puts, polled, ncalls, th>>

cache == <<data, bucket, lastmsg, marker, cmsg, ctime>>

\* ------------------------------------------------------- Python / memcache
None == <<>>
Some(v) == <<v>>

McGet(m, k) == IF k \in DOMAIN m THEN Some(m[k]) ELSE None

McSet(m, k, v) == [x \in (DOMAIN m) \cup {k} |-> IF x = k THEN v ELSE m[x]]

McDelete(m, k) == [x \in (DOMAIN m) \ {k} |-> m[x]]

\* append succeeds only on a key that exists
McAppend(m, k, suffix) ==
    IF k \in DOMAIN m THEN [m EXCEPT ![k] = @ \o suffix] ELSE m

\* add succeeds only on a key that does not exist
McAdd(m, k, v) == IF k \in DOMAIN m THEN m ELSE McSet(m, k, v)

\* "not key" in Python: None and the empty string
Falsy(keyopt) == keyopt = None \/ keyopt = Some("")

\* str.split(","): the pieces between the commas, the one after the last
\* comma included
RECURSIVE SplitFrom(_, _, _)
SplitFrom(s, i, cur) ==
    IF i > Len(s) THEN <<cur>>
    ELSE IF s[i] = Comma THEN <<cur>> \o SplitFrom(s, i + 1, "")
    ELSE SplitFrom(s, i + 1, cur \o s[i])

Split(s) == SplitFrom(s, 1, "")

\* list.index(x) with Python's 0-based result; -1 stands for ValueError
Index(msgs, xopt) ==
    LET hits == {i \in 1..Len(msgs) : xopt # None /\ msgs[i] = xopt[1]}
    IN  IF hits = {} THEN -1
        ELSE (CHOOSE i \in hits : \A j \in hits : i <= j) - 1

\* the key put builds from queue, client, time and a fresh uuid4; nothing
\* reads the parts of a key, so the key of the n-th put is just a fresh name
KeyName(n) == "k" \o ToString(n)

\* the payload of the n-th put: the tests put the numbers 1, 2, 3, ...
Payload(n) == "m" \o ToString(n)

\* ------------------------------------------------------------------ clock
StartOf(t) == CHOOSE s \in StartTimes :
                  s <= t /\ \A r \in StartTimes : r <= t => r <= s

Horizon(t) == StartOf(t) + 60 * MaxMinutes + 2

\* the readings the clock can show from reading t on
RECURSIVE ClockFrom(_)
ClockFrom(t) ==
    {t} \cup UNION {ClockFrom(t + d) : d \in {e \in TickSteps : t + e <= Horizon(t)}}

ClockValues == UNION {ClockFrom(s) : s \in StartTimes}

\* --------------------------------------------------------- TimeBucketIndex
\* int(time.strftime("%Y%m%d%H%M")), day/hour/minute digits
Stamp(t) ==
    LET m == t \div 60
    IN  ((m \div 1440) + 1) * 10000 + ((m \div 60) % 24) * 100 + (m % 60)

_get_timecache_keys(t, tframe) ==
    LET ts == Stamp(t)
        start_time == ts - tframe
    IN  [i \in 1..(ts + 1 - start_time) |-> start_time + i - 1]

BucketNow(t) ==
    LET keylist == _get_timecache_keys(t, 1) IN keylist[Len(keylist)]

AppendValue(keyID) == <<keyID, Comma>>

\* (mutant: the append replaces the list by the new key)
ViewAppendReplace(b, keynow, keyID) ==
    IF keynow \in DOMAIN b THEN [b EXCEPT ![keynow] = AppendValue(keyID)] ELSE b

\* the cache calls of _update_cache_view
ViewAppend(b, keynow, keyID) == McAppend(b, keynow, AppendValue(keyID))
ViewAdd(b, keynow, keyID) == McAdd(b, keynow, AppendValue(keyID))

\* the stamps a bucket can have within the clock's range
BucketStamps == {Stamp(t) : t \in ClockValues}

\* an ascending sequence of the numbers of a finite set
RECURSIVE Ascending(_)
Ascending(S) ==
    IF S = {} THEN <<>>
    ELSE LET m == CHOOSE x \in S : \A y \in S : x <= y
         IN  <<m>> \o Ascending(S \ {m})

\* The keys of lkeys that listmsgs has to read, in the order of its loop.
\* lkeys is an ascending range; a key that no put can write reads as None
\* whenever it is read and adds nothing, so the loop is run over the others.
KeysToRead(t, tframe) ==
    LET lkeys == _get_timecache_keys(t, tframe)
    IN  Ascending({s \in BucketStamps : lkeys[1] <= s /\ s <= lkeys[Len(lkeys)]})

\* ------------------------------------------------------------- QueueWriter
\* (mutant: the pointer is created once, as by add, and never overwritten)
SetLastMsgOnce(old, keyID) == IF old = None THEN Some(keyID) ELSE old

\* mc.set("<queue>_LASTMSG", keyID): the new value of the pointer
_set_last_msg(old, keyID) == Some(keyID)

\* ---------------------------------------------------------------- threads
\* A thread outside every method.  Inside one: op is the method, client its
\* clientID, key the message key handled (keyID), val the payload given or
\* read, exc the exception raised ("" for none), path the branch nextmsg or
\* _update_cache_view took, cm, ct, lm the cursor key, cursor time and
\* pointer nextmsg read, tl, t, tm the clock read by the lag test, by
\* strftime and by time.time() for a value to store (0 before the reading),
\* keynow the bucket put writes, todo the bucket keys listmsgs has yet to
\* read, msgs its list, num a number returned.
Idle ==
    [pc |-> "idle", op |-> "", client |-> "", key |-> None, val |-> None,
     exc |-> "", path |-> "", cm |-> None, ct |-> None, lm |-> None,
     tl |-> 0, t |-> 0, tm |-> 0, keynow |-> 0, todo |-> <<>>,
     msgs |-> <<>>, num |-> 0]

Enter(op, c) == [Idle EXCEPT !.op = op, !.client = c]

\* thread t goes on with locals r
Goes(t, r) == th' = [th EXCEPT ![t] = r]

\* the method returns or raises: nothing is left to do
Done(r) == [r EXCEPT !.pc = "done", !.todo = <<>>]
Raise(r, exc) == [Done(r) EXCEPT !.exc = exc]

\* ------------------------------------------------------------------- Init
Init ==
    /\ now \in StartTimes
    /\ autodelete \in BOOLEAN
    /\ data = <<>>
    /\ bucket = <<>>
    /\ lastmsg = None
    /\ marker = None
    /\ cmsg = [c \in Clients |-> None]
    /\ ctime = [c \in Clients |-> None]
    /\ nkeys = 0
    /\ puts = <<>>
    /\ polled = None
    /\ ncalls = 0
    /\ th = [t \in Threads |-> Idle]

\* the clock moves
Tick ==
    \E d \in TickSteps :
        /\ now + d <= Horizon(now)
        /\ now' = now + d
        /\ UNCHANGED <<autodelete, cache, nkeys, puts, polled, ncalls, th>>

ReturnedKeys == {puts[i].key : i \in 1..Len(puts)}

\* -------------------------------------------------------------------- put
\* put, lines 108-111: the key is built and the payload stored under it
CallPut(t, c) ==
    /\ th[t].pc = "idle"
    /\ nkeys < MaxPuts
    /\ nkeys' = nkeys + 1
    /\ data' = McSet(data, KeyName(nkeys + 1), Payload(nkeys + 1))
    /\ Goes(t, [Enter("put", c) EXCEPT !.key = Some(KeyName(nkeys + 1)),
                                       !.val = Some(Payload(nkeys + 1)),
                                       !.pc = "put_setlast"])
    /\ UNCHANGED <<now, autodelete, bucket, lastmsg, marker, cmsg, ctime,
                   puts, polled>>

\* put, line 113: the pointer is set, before the key is in any bucket
PutSetLast(t) ==
    /\ th[t].pc = "put_setlast"
    /\ lastmsg' = _set_last_msg(lastmsg, th[t].key[1])
    /\ Goes(t, [th[t] EXCEPT !.pc = "put_keynow"])
    /\ UNCHANGED <<now, autodelete, data, bucket, marker, cmsg, ctime,
                   nkeys, puts, polled, ncalls>>

\* _update_cache_view, lines 234-235: strftime names the bucket of now
PutKeyNow(t) ==
    /\ th[t].pc = "put_keynow"
    /\ Goes(t, [th[t] EXCEPT !.t = now, !.keynow = BucketNow(now),
                             !.pc = "put_append"])
    /\ UNCHANGED <<now, autodelete, cache, nkeys, puts, polled, ncalls>>

\* _update_cache_view, line 239: append, which fails on a missing bucket
PutAppend(t) ==
    /\ th[t].pc = "put_append"
    /\ bucket' = ViewAppend(bucket, th[t].keynow, th[t].key[1])
    /\ Goes(t, IF th[t].keynow \in DOMAIN bucket
               THEN [th[t] EXCEPT !.path = "appended", !.pc = "put_clock"]
               ELSE [th[t] EXCEPT !.pc = "put_add"])
    /\ UNCHANGED <<now, autodelete, data, lastmsg, marker, cmsg, ctime,
                   nkeys, puts, polled, ncalls>>

\* (mutant: the result of add is not looked at)
PutAddUnchecked(t) ==
    /\ th[t].pc = "put_add"
    /\ bucket' = ViewAdd(bucket, th[t].keynow, th[t].key[1])
    /\ Goes(t, [th[t] EXCEPT !.path = "added", !.pc = "put_clock"])
    /\ UNCHANGED <<now, autodelete, data, lastmsg, marker, cmsg, ctime,
                   nkeys, puts, polled, ncalls>>

\* _update_cache_view, line 240: add, which fails on a bucket that another
\* put has created since the append
PutAdd(t) ==
    /\ th[t].pc = "put_add"
    /\ bucket' = ViewAdd(bucket, th[t].keynow, th[t].key[1])
    /\ Goes(t, IF th[t].keynow \notin DOMAIN bucket
               THEN [th[t] EXCEPT !.path = "added", !.pc = "put_clock"]
               ELSE [th[t] EXCEPT !.pc = "put_retry"])
    /\ UNCHANGED <<now, autodelete, data, lastmsg, marker, cmsg, ctime,
                   nkeys, puts, polled, ncalls>>

\* _update_cache_view, line 241: the second append, its result unused
PutRetry(t) ==
    /\ th[t].pc = "put_retry"
    /\ bucket' = ViewAppend(bucket, th[t].keynow, th[t].key[1])
    /\ Goes(t, [th[t] EXCEPT !.path = "retried", !.pc = "put_clock"])
    /\ UNCHANGED <<now, autodelete, data, lastmsg, marker, cmsg, ctime,
                   nkeys, puts, polled, ncalls>>

\* _update_cache_view, line 243: time.time() is read for the marker
PutClock(t) ==
    /\ th[t].pc = "put_clock"
    /\ Goes(t, [th[t] EXCEPT !.tm = now, !.pc = "put_mark"])
    /\ UNCHANGED <<now, autodelete, cache, nkeys, puts, polled, ncalls>>

\* _update_cache_view, line 243: the marker is set to the time read, and put
\* returns the key
PutMark(t) ==
    /\ th[t].pc = "put_mark"
    /\ marker' = Some(th[t].tm)
    /\ Goes(t, Done(th[t]))
    /\ UNCHANGED <<now, autodelete, data, bucket, lastmsg, cmsg, ctime,
                   nkeys, puts, polled, ncalls>>

\* -------------------------------------------------------------------- get
\* get, line 128, mc.get(keyID) by a thread with locals r: the outcomes.  A
\* key that is None or "" is refused by the client library with an
\* exception or read as absent, depending on the library; both are kept.
mcget(r) ==
    (IF Falsy(r.key) THEN {Raise(r, "MemcachedKeyNoneError")} ELSE {})
    \cup {[r EXCEPT !.val = IF r.key = None THEN None
                            ELSE McGet(data, r.key[1]),
                    !.pc = IF autodelete THEN "get_delete" ELSE "get_setmsg"]}

\* get called with a key that a put has returned: its first cache call
CallGet(t, c, k) ==
    /\ th[t].pc = "idle"
    /\ k \in ReturnedKeys
    /\ \E r \in mcget([Enter("get", c) EXCEPT !.key = Some(k)]) : Goes(t, r)
    /\ UNCHANGED <<now, autodelete, cache, nkeys, puts, polled>>

\* get, line 128, inside last or nextmsg
GetRead(t) ==
    /\ th[t].pc = "get_read"
    /\ \E r \in mcget(th[t]) : Goes(t, r)
    /\ UNCHANGED <<now, autodelete, cache, nkeys, puts, polled, ncalls>>

\* (mutant: autodelete deletes nothing)
GetDeleteKeeps(t) ==
    /\ th[t].pc = "get_delete"
    /\ Goes(t, [th[t] EXCEPT !.pc = "get_setmsg"])
    /\ UNCHANGED <<now, autodelete, cache, nkeys, puts, polled, ncalls>>

\* get, lines 130-131 and 160: with autodelete the key is deleted
GetDelete(t) ==
    /\ th[t].pc = "get_delete"
    /\ data' = IF th[t].key = None THEN data ELSE McDelete(data, th[t].key[1])
    /\ Goes(t, [th[t] EXCEPT !.pc = "get_setmsg"])
    /\ UNCHANGED <<now, autodelete, bucket, lastmsg, marker, cmsg, ctime,
                   nkeys, puts, polled, ncalls>>

\* _set_last_client, line 278: the client's cursor key
GetSetMsg(t) ==
    /\ th[t].pc = "get_setmsg"
    /\ cmsg' = [cmsg EXCEPT ![th[t].client] = th[t].key]
    /\ Goes(t, [th[t] EXCEPT !.pc = "get_clock"])
    /\ UNCHANGED <<now, autodelete, data, bucket, lastmsg, marker, ctime,
                   nkeys, puts, polled, ncalls>>

\* _set_last_client, line 279: time.time() is read for the cursor time
GetClock(t) ==
    /\ th[t].pc = "get_clock"
    /\ Goes(t, [th[t] EXCEPT !.tm = now, !.pc = "get_settime"])
    /\ UNCHANGED <<now, autodelete, cache, nkeys, puts, polled, ncalls>>

\* (mutant: the cursor time is written only for a payload that was found)
GetSetTimeIfFound(t) ==
    /\ th[t].pc = "get_settime"
    /\ ctime' = IF th[t].val = None THEN ctime
                ELSE [ctime EXCEPT ![th[t].client] = Some(th[t].tm)]
    /\ Goes(t, Done(th[t]))
    /\ UNCHANGED <<now, autodelete, data, bucket, lastmsg, marker, cmsg,
                   nkeys, puts, polled, ncalls>>

\* _set_last_client, line 279: the client's cursor time, and get returns
GetSetTime(t) ==
    /\ th[t].pc = "get_settime"
    /\ ctime' = [ctime EXCEPT ![th[t].client] = Some(th[t].tm)]
    /\ Goes(t, Done(th[t]))
    /\ UNCHANGED <<now, autodelete, data, bucket, lastmsg, marker, cmsg,
                   nkeys, puts, polled, ncalls>>

\* ------------------------------------------------------------------- last
\* last, line 146: the pointer is read
CallLast(t, c) ==
    /\ th[t].pc = "idle"
    /\ Goes(t, [Enter("last", c) EXCEPT !.key = lastmsg, !.pc = "get_read"])
    /\ UNCHANGED <<now, autodelete, cache, nkeys, puts, polled>>

\* last, line 146, inside nextmsg
LastRead(t) ==
    /\ th[t].pc = "last_read"
    /\ Goes(t, [th[t] EXCEPT !.key = lastmsg, !.pc = "get_read"])
    /\ UNCHANGED <<now, autodelete, cache, nkeys, puts, polled, ncalls>>

\* ----------------------------------------------------------------- delete
\* (mutant: the oldest stored message is deleted, whatever the key)
deleteOldest(k) ==
    LET stored == {i \in 1..Len(puts) : puts[i].key \in DOMAIN data}
        first == CHOOSE i \in stored : \A j \in stored : i <= j
    IN  [num |-> IF stored = {} THEN 0 ELSE 1,
         data |-> IF stored = {} THEN data ELSE McDelete(data, puts[first].key)]

\* delete, line 160, mc.delete(keyID): the number returned and the payloads
\* left
delete(k) ==
    [num |-> IF k \in DOMAIN data THEN 1 ELSE 0, data |-> McDelete(data, k)]

\* delete called with a key that a put has returned: one cache call
CallDelete(t, c, k) ==
    /\ th[t].pc = "idle"
    /\ k \in ReturnedKeys
    /\ data' = delete(k).data
    /\ Goes(t, Done([Enter("delete", c) EXCEPT !.key = Some(k),
                                               !.num = delete(k).num]))
    /\ UNCHANGED <<now, autodelete, bucket, lastmsg, marker, cmsg, ctime,
                   nkeys, puts, polled>>

\* --------------------------------------------------------------- listmsgs
\* (mutant: the newest listed key is taken)
NextIndexNewest(msgs, cm) == Len(msgs) - 1

\* nextmsg, lines 198-202: the 0-based index of the key to deliver
NextIndex(msgs, cm) ==
    LET i == Index(msgs, cm) IN IF i = -1 THEN 0 ELSE i + 1

\* listmsgs, lines 94-95, after the loop: the last piece is popped and the
\* list returned; nextmsg, lines 198-204, goes on to take its key from it
Listed(r) ==
    IF r.msgs = <<>> THEN Raise(r, "IndexError")
    ELSE LET msgs == SubSeq(r.msgs, 1, Len(r.msgs) - 1)
             i == NextIndex(msgs, r.cm)
         IN  IF r.op = "listmsgs" THEN Done([r EXCEPT !.msgs = msgs])
             ELSE IF i >= Len(msgs)
                  THEN Raise([r EXCEPT !.msgs = msgs], "IndexError")
             ELSE [r EXCEPT !.msgs = msgs, !.key = Some(msgs[i + 1]),
                            !.todo = <<>>, !.pc = "get_read"]

\* _get_timecache_keys, line 217: strftime is read and the keys of the
\* window are listed
strftime(r, tframe) ==
    [r EXCEPT !.t = now, !.todo = KeysToRead(now, tframe), !.pc = "ls_read"]

\* listmsgs called with the default frame: line 87
CallListMsgs(t, c) ==
    /\ th[t].pc = "idle"
    /\ Goes(t, strftime(Enter("listmsgs", c), ListFrame))
    /\ UNCHANGED <<now, autodelete, cache, nkeys, puts, polled>>

\* listmsgs called by nextmsg with the client lag as frame: lines 197, 87
LsStrftime(t) ==
    /\ th[t].pc = "ls_strftime"
    /\ Goes(t, strftime(th[t], ClientLag))
    /\ UNCHANGED <<now, autodelete, cache, nkeys, puts, polled, ncalls>>

\* listmsgs, lines 88-91: one bucket is read and its pieces are added; after
\* the last bucket the loop ends
LsRead(t) ==
    /\ th[t].pc = "ls_read"
    /\ th[t].todo # <<>>
    /\ LET msg_list == McGet(bucket, Head(th[t].todo))
           r == [th[t] EXCEPT
                    !.msgs = IF msg_list # None /\ msg_list[1] # <<>>
                             THEN @ \o Split(msg_list[1]) ELSE @,
                    !.todo = Tail(@)]
       IN  Goes(t, IF r.todo = <<>> THEN Listed(r) ELSE r)
    /\ UNCHANGED <<now, autodelete, cache, nkeys, puts, polled, ncalls>>

\* ---------------------------------------------------------------- nextmsg
\* (mutant: the comparison of the two times is turned round)
LaggingFlipped(ct, tnow) == ct # None /\ ct[1] > tnow - ClientLag

\* nextmsg, line 194: the client is more than the client lag behind
Lagging(ct, tnow) == ct # None /\ ct[1] < tnow - ClientLag

\* (mutant: a lagging client is never caught up)
CaughtUpUnlessLagging(cm, lm, ct) ==
    cm = lm /\ ~(ct # None /\ ct[1] < now - ClientLag)

\* nextmsg, line 191: the cursor key is the pointer (None == None included)
CaughtUp(cm, lm, ct) == cm = lm

\* nextmsg, lines 187 and 289: the client's cursor key is read
CallNextMsg(t, c) ==
    /\ th[t].pc = "idle"
    /\ Goes(t, [Enter("nextmsg", c) EXCEPT !.cm = cmsg[c], !.pc = "nm_ctime"])
    /\ UNCHANGED <<now, autodelete, cache, nkeys, puts, polled>>

\* nextmsg, lines 187 and 290: the client's cursor time is read
NmCursorTime(t) ==
    /\ th[t].pc = "nm_ctime"
    /\ Goes(t, [th[t] EXCEPT !.ct = ctime[th[t].client], !.pc = "nm_lastmsg"])
    /\ UNCHANGED <<now, autodelete, cache, nkeys, puts, polled, ncalls>>

\* nextmsg, lines 189-194: the pointer is read; a caught-up client gets None,
\* a client without a cursor time goes to the list without a look at the
\* clock
NmLastMsg(t) ==
    /\ th[t].pc = "nm_lastmsg"
    /\ Goes(t, IF CaughtUp(th[t].cm, lastmsg, th[t].ct)
               THEN Done([th[t] EXCEPT !.lm = lastmsg, !.path = "caughtup"])
               ELSE IF th[t].ct = None
               THEN [th[t] EXCEPT !.lm = lastmsg, !.path = "scan",
                                  !.pc = "ls_strftime"]
               ELSE [th[t] EXCEPT !.lm = lastmsg, !.pc = "nm_lagtest"])
    /\ UNCHANGED <<now, autodelete, cache, nkeys, puts, polled, ncalls>>

\* nextmsg, line 194: time.time() is read and the cursor time compared
NmLagTest(t) ==
    /\ th[t].pc = "nm_lagtest"
    /\ Goes(t, IF Lagging(th[t].ct, now)
               THEN [th[t] EXCEPT !.tl = now, !.path = "fastforward",
                                  !.pc = "last_read"]
               ELSE [th[t] EXCEPT !.tl = now, !.path = "scan",
                                  !.pc = "ls_strftime"])
    /\ UNCHANGED <<now, autodelete, cache, nkeys, puts, polled, ncalls>>

\* ------------------------------------------------------------ purge_queue
\* purge_queue, line 69: _get_timecache_key is not a method of the class
CallPurgeQueue(t, c) ==
    /\ th[t].pc = "idle"
    /\ Goes(t, Raise(Enter("purge_queue", c), "AttributeError"))
    /\ UNCHANGED <<now, autodelete, cache, nkeys, puts, polled>>

\* ------------------------------------------------------------ check_queue
\* (mutant: the queue counts as written while a payload is stored)
check_queueByPayloads == IF DOMAIN data = {} THEN 0 ELSE 1

\* check_queue, lines 263-268: the marker, or 0 without one
check_queue == IF marker = None THEN 0 ELSE marker[1]

\* check_queue is one cache call
CallCheckQueue(t, c) ==
    /\ th[t].pc = "idle"
    /\ Goes(t, Done([Enter("check_queue", c) EXCEPT !.num = check_queue]))
    /\ UNCHANGED <<now, autodelete, cache, nkeys, puts, polled>>

\* ----------------------------------------------------------------- return
\* polled after the call with locals r has returned: a nextmsg of the
\* polling client that returned at line 192 is its latest poll, whatever
\* came before it; a delivery to the client ends the record; a call of
\* another client, or one that raised, leaves it
Polled(r) ==
    IF r.client # Poller \/ r.exc # "" \/ r.op \notin {"get", "last", "nextmsg"}
    THEN polled
    ELSE IF r.path = "caughtup" THEN Some(now)
    ELSE None

\* the caller has the result (or the exception); a put that has returned is
\* logged with its key, its payload, the time strftime gave it and the way
\* its key went into the bucket
Return(t) ==
    /\ th[t].pc = "done"
    /\ puts' = IF th[t].op = "put"
               THEN Append(puts, [key |-> th[t].key[1], data |-> th[t].val[1],
                                  time |-> th[t].t, path |-> th[t].path])
               ELSE puts
    /\ polled' = Polled(th[t])
    /\ Goes(t, Idle)
    /\ UNCHANGED <<now, autodelete, cache, nkeys, ncalls>>

\* a step inside a method
Step(t) ==
    \/ PutSetLast(t) \/ PutKeyNow(t) \/ PutAppend(t) \/ PutAdd(t)
    \/ PutClock(t) \/ PutMark(t)
    \/ GetRead(t) \/ GetDelete(t) \/ GetSetMsg(t) \/ GetClock(t)
    \/ GetSetTime(t)
    \/ LastRead(t)
    \/ LsStrftime(t) \/ LsRead(t)
    \/ NmCursorTime(t) \/ NmLastMsg(t) \/ NmLagTest(t)
    \/ Return(t)

\* ------------------------------------------------- one thread: Spec
\* One thread makes the calls, one after another, as the tests do; a call is
\* still made step by step, and the clock moves between the steps.  The
\* default client uses every method, the polling client only nextmsg.  The
\* second append of _update_cache_view is not among the steps: it is reached
\* only when another put has created the bucket between this put's append
\* and its add.
Uncounted == UNCHANGED ncalls

Next ==
    \/ Tick
    \/ CallPut(MainThread, DEFAULT_CLIENTID) /\ Uncounted
    \/ \E k \in ReturnedKeys : CallGet(MainThread, DEFAULT_CLIENTID, k) /\ Uncounted
    \/ CallLast(MainThread, DEFAULT_CLIENTID) /\ Uncounted
    \/ \E k \in ReturnedKeys : CallDelete(MainThread, DEFAULT_CLIENTID, k) /\ Uncounted
    \/ \E c \in Clients : CallNextMsg(MainThread, c) /\ Uncounted
    \/ CallListMsgs(MainThread, DEFAULT_CLIENTID) /\ Uncounted
    \/ CallPurgeQueue(MainThread, DEFAULT_CLIENTID) /\ Uncounted
    \/ CallCheckQueue(MainThread, DEFAULT_CLIENTID) /\ Uncounted
    \/ Step(MainThread)

Spec == Init /\ [][Next]_vars

\* ---------------------------------------------- two threads: ConcSpec
\* Two threads, each a client of its own, put and read at the same time, any
\* step of the one between any two steps of the other; MaxCalls calls are
\* started in all.
Counted == ncalls < MaxCalls /\ ncalls' = ncalls + 1

ConcNext ==
    \/ Tick
    \/ \E t \in Threads : CallPut(t, ClientOf(t)) /\ Counted
    \/ \E t \in Threads : \E k \in ReturnedKeys : CallGet(t, ClientOf(t), k) /\ Counted
    \/ \E t \in Threads : CallLast(t, ClientOf(t)) /\ Counted
    \/ \E t \in Threads : CallNextMsg(t, ClientOf(t)) /\ Counted
    \/ \E t \in Threads : Step(t) \/ PutRetry(t)

ConcSpec == Init /\ [][ConcNext]_vars

\* =================================================================== claims
\* A call is looked at in the state in which it has returned: its thread
\* stands at "done" and holds what the call read and what it returns, and,
\* when one thread runs alone, the cache is as the call left it.
Returned(t, op) == th[t].pc = "done" /\ th[t].op = op

\* the payload that was put under key k
PayloadOf(k) == LET i == CHOOSE j \in 1..Len(puts) : puts[j].key = k
                IN  puts[i].data

\* The keys of the puts registered in the buckets that a listing of the last
\* tframe minutes reads at time t, in write order.
WindowKeys(t, tframe) ==
    LET lkeys == _get_timecache_keys(t, tframe)
        stamps == {lkeys[i] : i \in 1..Len(lkeys)}
        sel == SelectSeq(puts, LAMBDA r : Stamp(r.time) \in stamps)
    IN  [i \in 1..Len(sel) |-> sel[i].key]

\* a cursor time ct is more than the client lag before time t
OlderThanLag(ct, t) == ct # None /\ ct[1] < t - ClientLag

\* the call with locals r, made by a thread that runs alone, delivered the
\* payload stored under its key: with autodelete the payload or None (the
\* key is deleted by now), without it what is still stored there
ReadPayload(r) ==
    /\ r.key # None /\ r.key[1] \in ReturnedKeys
    /\ IF autodelete
       THEN /\ r.val \in {None, Some(PayloadOf(r.key[1]))}
            /\ r.key[1] \notin DOMAIN data
       ELSE r.val = McGet(data, r.key[1])

\* C1: after N >= 1 puts made one after another within the listing window,
\* listmsgs returns exactly the N keys of those puts, in write order, with
\* no empty or extra token.
C1_ListIsThePutKeys ==
    \A t \in Threads :
        (Returned(t, "listmsgs") /\ WindowKeys(th[t].t, ListFrame) # <<>>)
        => /\ th[t].exc = ""
           /\ th[t].msgs = WindowKeys(th[t].t, ListFrame)

\* C2: when the cursor of a client that is not lagging names the key at
\* position i of the windowed list and position i+1 exists, nextmsg returns
\* the payload stored under the key at position i+1 and moves the cursor to
\* that key.
C2_NextIsTheFollowingKey ==
    \A t \in Threads :
        LET r == th[t]
            i == Index(r.msgs, r.cm)
        IN  (/\ Returned(t, "nextmsg")
             /\ r.path = "scan"
             /\ r.cm # None /\ r.cm[1] \in ReturnedKeys
             /\ r.ct # None /\ ~OlderThanLag(r.ct, r.tl)
             /\ i >= 0
             /\ i + 1 < Len(r.msgs))
            => /\ r.msgs[i + 2] \in ReturnedKeys
               /\ r.exc = ""
               /\ r.key = Some(r.msgs[i + 2])
               /\ ReadPayload(r)
               /\ cmsg[r.client] = r.key

\* C3: a client that has never consumed (no cursor key, no cursor time) and
\* calls nextmsg on a queue whose window lists at least one message gets the
\* payload of the oldest key of the window, whatever other clients have
\* consumed, and its cursor is created on that key.
C3_NewClientGetsOldest ==
    \A t \in Threads :
        LET r == th[t]
            W == WindowKeys(r.t, ClientLag)
        IN  (/\ Returned(t, "nextmsg")
             /\ r.cm = None /\ r.ct = None
             /\ puts # <<>>)
            => /\ r.path = "scan"
               /\ W # <<>>
                  => /\ r.exc = ""
                     /\ r.key = Some(W[1])
                     /\ ReadPayload(r)
                     /\ cmsg[r.client] = r.key
                     /\ ctime[r.client] = Some(r.tm)

\* the second client's first nextmsg returns message 1 although the default
\* client has consumed up to the newest of several messages
C3_Witness ==
    \E t \in Threads :
        /\ Returned(t, "nextmsg") /\ th[t].client = "TestClient6"
        /\ th[t].cm = None /\ th[t].ct = None
        /\ Len(puts) >= 2
        /\ cmsg[DEFAULT_CLIENTID] = lastmsg /\ lastmsg = Some(puts[Len(puts)].key)
        /\ th[t].path = "scan" /\ th[t].exc = ""
        /\ th[t].key = Some(puts[1].key) /\ th[t].val = Some(puts[1].data)
        /\ cmsg["TestClient6"] = Some(puts[1].key)

\* a nextmsg that found its client caught up returns None and raises nothing
CaughtUpGetsNone ==
    \A t \in Threads :
        (Returned(t, "nextmsg") /\ th[t].cm = th[t].lm)
        => th[t].path = "caughtup" /\ th[t].exc = "" /\ th[t].val = None

\* once nextmsg has read a pointer that is its client's cursor key, no step
\* of the call changes anything in the cache
CaughtUpWritesNothing ==
    \A t \in Threads :
        (/\ th[t].op = "nextmsg"
         /\ th[t].pc \notin {"nm_ctime", "nm_lastmsg"}
         /\ th[t].cm = th[t].lm
         /\ th'[t] # th[t])
        => UNCHANGED cache

\* C4: once a client's cursor key equals the LastMessage pointer, nextmsg
\* returns None and changes nothing (payloads, pointer, buckets, cursor keys
\* and cursor times are left as they are), however much time has passed; so
\* the client stays caught up, call after call, until a put moves the
\* pointer.
C4_CaughtUpIsIdempotent == []CaughtUpGetsNone /\ [][CaughtUpWritesNothing]_vars

\* a client caught up on a written queue calls nextmsg more than clientlag
\* seconds after its last delivery and gets None
C4_Witness ==
    \E t \in Threads :
        /\ Returned(t, "nextmsg")
        /\ th[t].lm # None /\ th[t].cm = th[t].lm
        /\ OlderThanLag(th[t].ct, now)
        /\ cmsg[th[t].client] = th[t].cm /\ ctime[th[t].client] = th[t].ct
        /\ th[t].path = "caughtup" /\ th[t].val = None

\* C5: when the index nextmsg computes is out of the range of the windowed
\* list and the cursor differs from the LastMessage pointer, nextmsg returns
\* None and raises nothing.
C5_OutOfRangeIsCaughtUp ==
    \A t \in Threads :
        (/\ Returned(t, "nextmsg")
         /\ th[t].path = "scan"
         /\ th[t].cm # th[t].lm
         /\ NextIndex(th[t].msgs, th[t].cm) >= Len(th[t].msgs))
        => (th[t].exc = "" /\ th[t].val = None)

\* C6: listmsgs on a queue with no data in any bucket of the window returns
\* the empty list and raises nothing.
C6_EmptyWindowListsNothing ==
    \A t \in Threads :
        (Returned(t, "listmsgs") /\ WindowKeys(th[t].t, ListFrame) = <<>>)
        => (th[t].exc = "" /\ th[t].msgs = <<>>)

\* the places (bucket, position) at which a key stands in the bucket lists
Places(k) ==
    {sp \in UNION {{<<st, i>> : i \in 1..Len(bucket[st])} : st \in DOMAIN bucket} :
        bucket[sp[1]][sp[2]] = k}

\* the keys of the puts that have completed, their callers told or not yet
CompletedKeys ==
    ReturnedKeys \cup {th[t].key[1] : t \in {u \in Threads : Returned(u, "put")}}

\* C7: under any interleaving of concurrent puts, every put that has
\* completed has its key exactly once in the bucket lists, and no key stands
\* twice.
C7_EveryPutRegisteredOnce ==
    /\ \A k \in CompletedKeys : Cardinality(Places(k)) = 1
    /\ \A n \in 1..nkeys : Cardinality(Places(KeyName(n))) <= 1

\* a put that lost the race to create its bucket has completed through the
\* second append, its key standing behind the winner's
C7_Witness ==
    \E i \in 1..Len(puts) :
        /\ puts[i].path = "retried"
        /\ \E sp \in Places(puts[i].key) : sp[2] > 2

\* C8: a client whose cursor time is older than now - clientlag and whose
\* cursor key differs from the LastMessage pointer is fast-forwarded: nextmsg
\* returns the payload of the key the pointer names and moves the cursor to
\* it, so the client is caught up and the next nextmsg returns None.
C8_LaggingClientFastForwards ==
    \A t \in Threads :
        LET r == th[t]
        IN  (/\ Returned(t, "nextmsg")
             /\ r.cm # r.lm
             /\ r.ct # None /\ OlderThanLag(r.ct, r.tl))
            => /\ r.path = "fastforward"
               /\ r.lm # None
               /\ r.exc = ""
               /\ r.key = r.lm
               /\ ReadPayload(r)
               /\ cmsg[r.client] = r.lm
               /\ lastmsg = r.lm

\* a lagging client standing on message 1 is given message 3, message 2
\* being skipped
C8_Witness ==
    \E t \in Threads :
        /\ Returned(t, "nextmsg")
        /\ Len(puts) = 3
        /\ th[t].cm = Some(puts[1].key)
        /\ OlderThanLag(th[t].ct, th[t].tl)
        /\ th[t].path = "fastforward" /\ th[t].exc = ""
        /\ th[t].key = Some(puts[3].key) /\ th[t].val = Some(puts[3].data)

\* C9: after one producer has put messages 1..N one after another, last
\* returns the payload of the N-th put (None once that payload is deleted)
\* and sets the caller's cursor to its key.
C9_LastIsTheNewestPut ==
    \A t \in Threads :
        (Returned(t, "last") /\ puts # <<>>)
        => /\ th[t].exc = ""
           /\ th[t].key = Some(puts[Len(puts)].key)
           /\ ReadPayload(th[t])
           /\ cmsg[th[t].client] = th[t].key

\* last returns the payload of the newest of several puts
C9_Witness ==
    \E t \in Threads :
        /\ Returned(t, "last")
        /\ Len(puts) >= 2
        /\ th[t].val = Some(puts[Len(puts)].data)
        /\ cmsg[DEFAULT_CLIENTID] = Some(puts[Len(puts)].key)

\* C10: purge_queue on a queue with messages in the window completes without
\* raising, and afterwards every message key that listmsgs listed for the
\* window before the call is deleted.
C10_PurgeDeletesTheWindow ==
    \A t \in Threads :
        (Returned(t, "purge_queue") /\ WindowKeys(now, PurgeFrame) # <<>>)
        => LET W == WindowKeys(now, PurgeFrame)
           IN  /\ th[t].exc = ""
               /\ \A i \in 1..Len(W) : W[i] \notin DOMAIN data

\* a delivering call that read a message key and completed
ReadAKey(r) ==
    /\ r.pc = "done" /\ r.op \in {"get", "last", "nextmsg"}
    /\ r.exc = "" /\ r.path # "caughtup"
    /\ r.key # None /\ r.key[1] \in ReturnedKeys

\* after a completed read of a message key: with autodelete the payload is
\* gone; without autodelete the value returned is still what is stored and
\* what a get of the key returns
ReadOnceOrAgain ==
    \A t \in Threads :
        ReadAKey(th[t])
        => IF autodelete
           THEN th[t].key[1] \notin DOMAIN data
           ELSE McGet(data, th[t].key[1]) = th[t].val

\* a payload that is gone stays gone (no step stores anything under a key
\* that put has returned), and a get that reads a key whose payload is gone
\* has None to return
GoneStaysGone ==
    /\ \A k \in ReturnedKeys : k \notin DOMAIN data => k \notin DOMAIN data'
    /\ \A t \in Threads :
          (/\ th[t].pc \in {"idle", "get_read"}
           /\ th'[t].pc \in {"get_delete", "get_setmsg"}
           /\ th'[t].key # None /\ th'[t].key[1] \notin DOMAIN data)
          => th'[t].val = None

\* C11: with autodelete enabled, once a get, last or nextmsg has read a
\* message key and completed, the payload is gone and every later get of the
\* key returns None; with autodelete disabled a read leaves the payload in
\* place and it can be read again.
C11_AutodeleteReadsOnce == []ReadOnceOrAgain /\ [][GoneStaysGone]_vars

\* with autodelete a stored payload was read by nextmsg, which returns it
\* and has left nothing under the key
C11_Witness ==
    /\ autodelete
    /\ \E t \in Threads :
          /\ ReadAKey(th[t]) /\ th[t].op = "nextmsg"
          /\ th[t].val # None
          /\ th[t].key[1] \notin DOMAIN data

\* C12: check_queue returns 0 on a queue on which no put has been made and a
\* non-zero value in every state after a put has completed; reads and deletes
\* of message keys never bring it back to 0.
C12_CheckQueueTellsWritten ==
    /\ nkeys = 0 => check_queue = 0
    /\ puts # <<>> => check_queue # 0
    /\ \A t \in Threads :
          Returned(t, "check_queue")
          => /\ nkeys = 0 => th[t].num = 0
             /\ puts # <<>> => th[t].num # 0

\* every payload of a written queue has been deleted, a client has read, and
\* check_queue returns the time the last put gave the marker
C12_Witness ==
    /\ puts # <<>>
    /\ DOMAIN data = {}
    /\ cmsg[DEFAULT_CLIENTID] # None
    /\ \E t \in Threads :
          /\ Returned(t, "check_queue")
          /\ th[t].num >= puts[Len(puts)].time
          /\ marker = Some(th[t].num)

\* C13: after put has returned key k and delete(queue, k) has been called,
\* get(queue, k) returns None, however many other messages were put before
\* k: delete leaves nothing under its key, and (without autodelete, where
\* only delete removes a payload) a get of a key under which nothing is left
\* returns None.
C13_DeletedKeyReadsNone ==
    \A t \in Threads :
        /\ Returned(t, "delete") => th[t].key[1] \notin DOMAIN data
        /\ (/\ Returned(t, "get")
            /\ ~autodelete
            /\ th[t].key[1] \notin DOMAIN data)
           => (th[t].exc = "" /\ th[t].val = None)

\* the newest of several messages has been deleted, the older ones are still
\* stored, and get of its key has returned None
C13_Witness ==
    /\ ~autodelete
    /\ Len(puts) >= 2
    /\ puts[Len(puts)].key \notin DOMAIN data
    /\ \A i \in 1..(Len(puts) - 1) : puts[i].key \in DOMAIN data
    /\ \E t \in Threads :
          /\ Returned(t, "get")
          /\ th[t].key = Some(puts[Len(puts)].key)
          /\ th[t].exc = "" /\ th[t].val = None

\* the window lengths the class asks for: the registration of a key, the
\* defaults of listmsgs and purge_queue, and the client lag nextmsg passes
Frames == {1, ListFrame, PurgeFrame, ClientLag}

\* the stamps of the wall-clock minutes currentMinute - w .. currentMinute
MinuteStamps(t, w) == [i \in 1..(w + 1) |-> Stamp(t - 60 * (w + 1 - i))]

\* C14: _get_timecache_keys(queue, w) returns w+1 bucket keys, oldest first,
\* which are exactly the bucket keys of the wall-clock minutes
\* currentMinute-w through currentMinute; hence a key registered m <= w
\* minutes ago lies in a listed bucket, also across an hour or day boundary.
C14_WindowIsTheLastMinutes ==
    \A w \in Frames :
        LET keylist == _get_timecache_keys(now, w)
        IN  /\ Len(keylist) = w + 1
            /\ keylist = MinuteStamps(now, w)
            /\ \A i \in 1..Len(puts) :
                   (now \div 60) - (puts[i].time \div 60) <= w
                   => \E j \in 1..Len(keylist) : keylist[j] = Stamp(puts[i].time)

\* C15: put stores the payload, then registers the key in the current
\* bucket, and only then overwrites the LastMessage pointer; so in every
\* reachable state, the middle of a put included, the key the pointer names
\* stands in a bucket list and its payload has been stored.
C15_PointerNamesRegisteredKey ==
    lastmsg # None
    => /\ lastmsg[1] \in {KeyName(n) : n \in 1..nkeys}
       /\ Places(lastmsg[1]) # {}

\* s is a prefix of t
IsPrefix(s, t) == Len(s) <= Len(t) /\ SubSeq(t, 1, Len(s)) = s

\* C16: bucket lists are append-only: across every step of every operation
\* of the API each bucket's value after the step has its value before the
\* step as a prefix; no operation removes, rewrites or deletes a bucket.
C16_BucketsAppendOnly ==
    [][\A st \in DOMAIN bucket :
          st \in DOMAIN bucket' /\ IsPrefix(bucket[st], bucket'[st])]_vars

\* a bucket lists two keys, the second appended behind the first, and every
\* payload has been deleted since
C16_Witness ==
    /\ DOMAIN data = {}
    /\ Len(puts) >= 2
    /\ \E st \in DOMAIN bucket :
          /\ Len(bucket[st]) >= 4
          /\ bucket[st][1] = puts[1].key
          /\ bucket[st][3] = puts[2].key

\* a completed delivery: get and last always, nextmsg unless the client is
\* caught up (then nothing is delivered)
Delivered(r) ==
    /\ r.pc = "done" /\ r.op \in {"get", "last", "nextmsg"}
    /\ r.exc = "" /\ r.path # "caughtup"

\* every completed delivery has left the key handled and the time it read
\* in the client's cursor, and the time is not before the one the call found
DeliveryMovesCursor ==
    \A t \in Threads :
        Delivered(th[t])
        => /\ cmsg[th[t].client] = th[t].key
           /\ ctime[th[t].client] = Some(th[t].tm)
           /\ th[t].ct # None => th[t].ct[1] <= th[t].tm

\* no step takes a cursor time away or moves it back
CursorTimeGrows ==
    \A c \in Clients :
        ctime[c] # None => ctime'[c] # None /\ ctime[c][1] <= ctime'[c][1]

\* C17: for each client the stored cursor time never decreases across
\* successive deliveries (get, last, nextmsg), the clock not going back; and
\* every delivery, one whose payload is absent included, overwrites both the
\* cursor key and the cursor time.
C17_CursorTimeMonotonic == []DeliveryMovesCursor /\ [][CursorTimeGrows]_vars

\* a get of a deleted key, made in a later minute than the put: None is
\* returned, cursor key and time are set
C17_Witness ==
    \E t \in Threads :
        /\ Returned(t, "get")
        /\ ~autodelete
        /\ th[t].key[1] \notin DOMAIN data
        /\ th[t].val = None
        /\ cmsg[DEFAULT_CLIENTID] = th[t].key
        /\ ctime[DEFAULT_CLIENTID] = Some(now)
        /\ \A i \in 1..Len(puts) : puts[i].time < now

\* C18: a client that, once caught up, keeps calling nextmsg at intervals
\* shorter than clientlag is never fast-forwarded (so that it receives every
\* message put afterwards, none skipped), even when the first new message
\* comes more than clientlag seconds after the client's last delivery: when
\* the polling client's nextmsg returns less than the client lag after the
\* latest call that found it caught up, nothing having been delivered to it
\* and a message having been put in the meantime, it has not been handed the
\* newest message by last().
C18_ActivePollerNotFastForwarded ==
    \A t \in Threads :
        (/\ Returned(t, "nextmsg")
         /\ th[t].client = Poller
         /\ polled # None
         /\ now - polled[1] < ClientLag
         /\ th[t].cm # th[t].lm)
        => th[t].path # "fastforward"

\* C19: with no concurrent put or delete, a client that is not lagging and
\* calls nextmsg repeatedly on a window of N message keys, in one or several
\* minute buckets, receives the payload of each key once, in list order, and
\* None from then on: standing before the window or on its i-th key, it is
\* given the next key of the window, never a token that is no message key,
\* and standing on the last key it is caught up.
C19_ScanDeliversEachKeyOnce ==
    \A t \in Threads :
        LET r == th[t]
            W == WindowKeys(IF r.path = "scan" THEN r.t ELSE now, ClientLag)
            i == Index(W, r.cm) + 1
        IN  (/\ Returned(t, "nextmsg")
             /\ W # <<>>
             /\ ~OlderThanLag(r.ct, IF r.tl > 0 THEN r.tl ELSE now)
             /\ r.cm = None \/ i >= 1)
            => /\ r.exc = ""
               /\ IF i = Len(W)
                  THEN r.path = "caughtup" /\ r.val = None
                  ELSE /\ r.key = Some(W[i + 1])
                       /\ ReadPayload(r)
                       /\ cmsg[r.client] = r.key

\* the place (bucket, position) of a registered key
PlaceOf(k) == CHOOSE sp \in Places(k) : TRUE

\* place a is not behind place b in the bucket order: older bucket first,
\* then position in the list
NotBehind(a, b) == a[1] < b[1] \/ (a[1] = b[1] /\ a[2] <= b[2])

\* C20: after two or more concurrent puts on the queue have all completed, in
\* any interleaving of their steps, a client that calls nextmsg repeatedly
\* receives every registered key before nextmsg reports caught-up; that is,
\* no registered key stands behind the key of the LastMessage pointer in the
\* bucket order, so that a client whose cursor equals the pointer has
\* nothing left to read.
C20_PointerIsLastInBucketOrder ==
    (/\ \A t \in Threads : th[t].pc = "idle"
     /\ Len(puts) >= 2)
    => /\ lastmsg # None
       /\ Places(lastmsg[1]) # {}
       /\ \A k \in ReturnedKeys : NotBehind(PlaceOf(k), PlaceOf(lastmsg[1]))

====
